---- MODULE Spec2Model ----
(***************************************************************************)
(* countgpt: model-name resolution (countgpt/models.py) and token span     *)
(* reconstruction and rendering (countgpt/visualize.py).                   *)
(*                                                                         *)
(* Strings are sequences: model and encoding names are sequences of        *)
(* one-character strings, texts are sequences of Unicode code points and   *)
(* tokens are sequences of byte values.  Offsets are 0-based as in the     *)
(* code; the k-th character of a text t (0-based) is t[k + 1].             *)
(***************************************************************************)
EXTENDS Naturals, Integers, Sequences, FiniteSets, TLC

VARIABLES pc, caller, model_name, content, encoding_name, ct_result, stderr,
          text, tokens, output, sinks, positions, offset, error_count,
          tok_i, colored_text, last_end, span_i

vars == <<pc, caller, model_name, content, encoding_name, ct_result, stderr,
          text, tokens, output, sinks, positions, offset, error_count,
          tok_i, colored_text, last_end, span_i>>

resolverVars == <<model_name, content, encoding_name, ct_result>>

vizVars == <<text, tokens, output, sinks, positions, offset, error_count,
             tok_i, colored_text, last_end, span_i>>

----------------------------------------------------------------------------
(* Bounds of the model. *)

\* longest suffix appended to a known name, prefix or unknown stem
MaxSuffixLen == 1

\* longest content handed to count_tokens
MaxContentLen == 2

\* longest text of the short inputs
MaxTextLen == 3

\* most tokens of the short inputs
MaxTokens == 3

\* most tokens of the inputs with many positioning errors
MaxErrTokens == 6

----------------------------------------------------------------------------
(* countgpt/models.py *)

\* the encoding names of the tokenizer library
o200k_base == <<"o","2","0","0","k","_","b","a","s","e">>
cl100k_base == <<"c","l","1","0","0","k","_","b","a","s","e">>
p50k_base == <<"p","5","0","k","_","b","a","s","e">>
p50k_edit == <<"p","5","0","k","_","e","d","i","t">>
r50k_base == <<"r","5","0","k","_","b","a","s","e">>
gpt2 == <<"g","p","t","2">>

\* prefix table, in insertion order (a dict iterates in insertion order)
MODEL_PREFIX_TO_ENCODING ==
  << <<<<"o","1","-">>, o200k_base>>,
     <<<<"o","3","-">>, o200k_base>>,
     <<<<"c","h","a","t","g","p","t","-","4","o","-">>, o200k_base>>,
     <<<<"g","p","t","-","4","o","-">>, o200k_base>>,
     <<<<"g","p","t","-","4","-">>, cl100k_base>>,
     <<<<"g","p","t","-","3",".","5","-","t","u","r","b","o","-">>, cl100k_base>>,
     <<<<"g","p","t","-","3","5","-","t","u","r","b","o","-">>, cl100k_base>>,
     <<<<"f","t",":","g","p","t","-","4","o">>, o200k_base>>,
     <<<<"f","t",":","g","p","t","-","4">>, cl100k_base>>,
     <<<<"f","t",":","g","p","t","-","3",".","5","-","t","u","r","b","o">>, cl100k_base>>,
     <<<<"f","t",":","d","a","v","i","n","c","i","-","0","0","2">>, cl100k_base>>,
     <<<<"f","t",":","b","a","b","b","a","g","e","-","0","0","2">>, cl100k_base>> >>

\* exact table
MODEL_TO_ENCODING ==
  << <<<<"c","l","a","u","d","e","-","3","-","o","p","u","s">>, o200k_base>>,
     <<<<"c","l","a","u","d","e","-","3","-","s","o","n","n","e","t">>, o200k_base>>,
     <<<<"c","l","a","u","d","e","-","3","-","h","a","i","k","u">>, o200k_base>>,
     <<<<"c","l","a","u","d","e","-","3">>, o200k_base>>,
     <<<<"c","l","a","u","d","e","-","2">>, o200k_base>>,
     <<<<"c","l","a","u","d","e","-","2",".","0">>, o200k_base>>,
     <<<<"c","l","a","u","d","e","-","2",".","1">>, o200k_base>>,
     <<<<"c","l","a","u","d","e","-","i","n","s","t","a","n","t">>, o200k_base>>,
     <<<<"c","l","a","u","d","e">>, o200k_base>>,
     <<<<"o","1">>, o200k_base>>,
     <<<<"o","3">>, o200k_base>>,
     <<<<"g","p","t","-","4","o">>, o200k_base>>,
     <<<<"g","p","t","-","4","-","t","u","r","b","o">>, cl100k_base>>,
     <<<<"g","p","t","-","4">>, cl100k_base>>,
     <<<<"g","p","t","-","3",".","5","-","t","u","r","b","o">>, cl100k_base>>,
     <<<<"g","p","t","-","3",".","5">>, cl100k_base>>,
     <<<<"c","h","a","t","g","p","t">>, cl100k_base>>,
     <<<<"g","p","t","-","3","5","-","t","u","r","b","o">>, cl100k_base>>,
     <<<<"d","a","v","i","n","c","i","-","0","0","2">>, cl100k_base>>,
     <<<<"b","a","b","b","a","g","e","-","0","0","2">>, cl100k_base>>,
     <<<<"t","e","x","t","-","e","m","b","e","d","d","i","n","g","-","a","d","a","-","0","0","2">>, cl100k_base>>,
     <<<<"t","e","x","t","-","e","m","b","e","d","d","i","n","g","-","3","-","s","m","a","l","l">>, cl100k_base>>,
     <<<<"t","e","x","t","-","e","m","b","e","d","d","i","n","g","-","3","-","l","a","r","g","e">>, cl100k_base>>,
     <<<<"4","o">>, o200k_base>>,
     <<<<"4">>, cl100k_base>>,
     <<<<"3",".","5">>, cl100k_base>>,
     <<<<"o","p","u","s">>, o200k_base>>,
     <<<<"s","o","n","n","e","t">>, o200k_base>>,
     <<<<"h","a","i","k","u">>, o200k_base>>,
     <<<<"t","e","x","t","-","d","a","v","i","n","c","i","-","0","0","3">>, p50k_base>>,
     <<<<"t","e","x","t","-","d","a","v","i","n","c","i","-","0","0","2">>, p50k_base>>,
     <<<<"t","e","x","t","-","d","a","v","i","n","c","i","-","0","0","1">>, r50k_base>>,
     <<<<"t","e","x","t","-","c","u","r","i","e","-","0","0","1">>, r50k_base>>,
     <<<<"t","e","x","t","-","b","a","b","b","a","g","e","-","0","0","1">>, r50k_base>>,
     <<<<"t","e","x","t","-","a","d","a","-","0","0","1">>, r50k_base>>,
     <<<<"d","a","v","i","n","c","i">>, r50k_base>>,
     <<<<"c","u","r","i","e">>, r50k_base>>,
     <<<<"b","a","b","b","a","g","e">>, r50k_base>>,
     <<<<"a","d","a">>, r50k_base>>,
     <<<<"c","o","d","e","-","d","a","v","i","n","c","i","-","0","0","2">>, p50k_base>>,
     <<<<"c","o","d","e","-","d","a","v","i","n","c","i","-","0","0","1">>, p50k_base>>,
     <<<<"c","o","d","e","-","c","u","s","h","m","a","n","-","0","0","2">>, p50k_base>>,
     <<<<"c","o","d","e","-","c","u","s","h","m","a","n","-","0","0","1">>, p50k_base>>,
     <<<<"d","a","v","i","n","c","i","-","c","o","d","e","x">>, p50k_base>>,
     <<<<"c","u","s","h","m","a","n","-","c","o","d","e","x">>, p50k_base>>,
     <<<<"t","e","x","t","-","d","a","v","i","n","c","i","-","e","d","i","t","-","0","0","1">>, p50k_edit>>,
     <<<<"c","o","d","e","-","d","a","v","i","n","c","i","-","e","d","i","t","-","0","0","1">>, p50k_edit>>,
     <<<<"t","e","x","t","-","s","i","m","i","l","a","r","i","t","y","-","d","a","v","i","n","c","i","-","0","0","1">>, r50k_base>>,
     <<<<"t","e","x","t","-","s","i","m","i","l","a","r","i","t","y","-","c","u","r","i","e","-","0","0","1">>, r50k_base>>,
     <<<<"t","e","x","t","-","s","i","m","i","l","a","r","i","t","y","-","b","a","b","b","a","g","e","-","0","0","1">>, r50k_base>>,
     <<<<"t","e","x","t","-","s","i","m","i","l","a","r","i","t","y","-","a","d","a","-","0","0","1">>, r50k_base>>,
     <<<<"t","e","x","t","-","s","e","a","r","c","h","-","d","a","v","i","n","c","i","-","d","o","c","-","0","0","1">>, r50k_base>>,
     <<<<"t","e","x","t","-","s","e","a","r","c","h","-","c","u","r","i","e","-","d","o","c","-","0","0","1">>, r50k_base>>,
     <<<<"t","e","x","t","-","s","e","a","r","c","h","-","b","a","b","b","a","g","e","-","d","o","c","-","0","0","1">>, r50k_base>>,
     <<<<"t","e","x","t","-","s","e","a","r","c","h","-","a","d","a","-","d","o","c","-","0","0","1">>, r50k_base>>,
     <<<<"c","o","d","e","-","s","e","a","r","c","h","-","b","a","b","b","a","g","e","-","c","o","d","e","-","0","0","1">>, r50k_base>>,
     <<<<"c","o","d","e","-","s","e","a","r","c","h","-","a","d","a","-","c","o","d","e","-","0","0","1">>, r50k_base>>,
     <<<<"g","p","t","2">>, gpt2>>,
     <<<<"g","p","t","-","2">>, gpt2>> >>


\* tiktoken.list_encoding_names(): the names registered by the tokenizer library
get_available_models == <<gpt2, r50k_base, p50k_base, p50k_edit, cl100k_base, o200k_base>>

\* x in <list>
InList(x, list) == \E i \in 1..Len(list) : list[i] = x

\* model_name in MODEL_TO_ENCODING
InExactTableNever(name) == FALSE

InExactTable(name) == \E i \in 1..Len(MODEL_TO_ENCODING) : MODEL_TO_ENCODING[i][1] = name

\* MODEL_TO_ENCODING[model_name]
ExactValue(name) ==
  MODEL_TO_ENCODING[CHOOSE i \in 1..Len(MODEL_TO_ENCODING) : MODEL_TO_ENCODING[i][1] = name][2]

\* s.startswith(p), compared character by character from the left
RECURSIVE StartsWithFrom(_, _, _)
StartsWithFrom(s, p, k) ==
  IF k > Len(p) THEN TRUE
  ELSE IF k > Len(s) THEN FALSE
  ELSE IF s[k] # p[k] THEN FALSE
  ELSE StartsWithFrom(s, p, k + 1)

StartsWith(s, p) == StartsWithFrom(s, p, 1)

\* the loop "for prefix, encoding in MODEL_PREFIX_TO_ENCODING.items()": the
\* index of the first entry from i on whose prefix model_name starts with,
\* 0 when the loop runs off the end of the table
RECURSIVE LastPrefixMatch(_, _)
LastPrefixMatch(name, i) ==
  LET j == Len(MODEL_PREFIX_TO_ENCODING) + 1 - i IN
  IF j < 1 THEN 0
  ELSE IF StartsWith(name, MODEL_PREFIX_TO_ENCODING[j][1]) THEN j
  ELSE LastPrefixMatch(name, i + 1)

RECURSIVE FirstPrefixMatch(_, _)
FirstPrefixMatch(name, i) ==
  IF i > Len(MODEL_PREFIX_TO_ENCODING) THEN 0
  ELSE IF StartsWith(name, MODEL_PREFIX_TO_ENCODING[i][1]) THEN i
  ELSE FirstPrefixMatch(name, i + 1)

\* model_name.startswith(tuple(MODEL_PREFIX_TO_ENCODING.keys()))
StartsWithAnyPrefix(name) ==
  \E i \in 1..Len(MODEL_PREFIX_TO_ENCODING) : StartsWith(name, MODEL_PREFIX_TO_ENCODING[i][1])

\* "if model_name in get_available_models(): return model_name"
IsEncodingNameNever(name) == FALSE

IsEncodingName(name) == InList(name, get_available_models)

\* the condition guarding the warning of the default fallback
WarnUnknownNever(name) == FALSE

WarnUnknown(name) ==
  /\ ~StartsWithAnyPrefix(name)
  /\ ~InList(name, get_available_models)

\* the line printed to sys.stderr for an unknown model
UnknownModelWarning(name) == <<"unknown_model", name>>

\* get_encoding_for_model(model_name): the returned encoding and the lines
\* it prints to sys.stderr
get_encoding_for_model(name) ==
  IF InExactTable(name)
  THEN [encoding |-> ExactValue(name), warnings |-> <<>>]
  ELSE LET i == FirstPrefixMatch(name, 1) IN
       IF i # 0
       THEN [encoding |-> MODEL_PREFIX_TO_ENCODING[i][2], warnings |-> <<>>]
       ELSE IF IsEncodingName(name)
       THEN [encoding |-> name, warnings |-> <<>>]
       ELSE [encoding |-> cl100k_base,
             warnings |-> IF WarnUnknown(name)
                          THEN <<UnknownModelWarning(name)>>
                          ELSE <<>>]

\* tiktoken.get_encoding(encoding_name) fails for a name the library does
\* not register
GetEncodingFails(name) == ~InList(name, get_available_models)

\* len(encoding.encode(content)): the tokenizer is outside the repository;
\* it yields no token for empty content and at most one token per character
EncodeCounts(c) == IF c = <<>> THEN {0} ELSE 1..Len(c)

\* count_tokens(content, model) with the tokenizer answering n tokens
count_tokens(c, model, n) ==
  LET r == get_encoding_for_model(model) IN
  IF GetEncodingFails(r.encoding)
  THEN [kind |-> "ValueError", value |-> 0, warnings |-> r.warnings]
  ELSE [kind |-> "return", value |-> n, warnings |-> r.warnings]

----------------------------------------------------------------------------
(* countgpt/visualize.py *)

\* colour numbers of the palette "\033[48;5;{}m"
BG_COLORS == <<153, 184, 214, 209, 183, 157, 156, 147, 146, 218, 222, 229, 193, 157, 122>>

\* the reset marker "\033[0m"
RESET == <<"reset", 0>>

\* the colour marker of the token with 0-based index i
ColorMarker(i) == <<"color", BG_COLORS[(i % Len(BG_COLORS)) + 1]>>

\* U+FFFD, the character errors='replace' substitutes
REPLACEMENT == 65533

\* number of bytes the lead byte b0 announces (0: no lead byte)
Utf8SeqLen(b0) ==
  IF b0 < 128 THEN 1
  ELSE IF b0 >= 194 /\ b0 <= 223 THEN 2
  ELSE IF b0 >= 224 /\ b0 <= 239 THEN 3
  ELSE IF b0 >= 240 /\ b0 <= 244 THEN 4
  ELSE 0

\* is c a valid k-th following byte (k >= 1) after lead byte b0
Utf8ContOk(b0, k, c) ==
  IF k = 1
  THEN /\ c >= (IF b0 = 224 THEN 160 ELSE IF b0 = 240 THEN 144 ELSE 128)
       /\ c <= (IF b0 = 237 THEN 159 ELSE IF b0 = 244 THEN 143 ELSE 191)
  ELSE c >= 128 /\ c <= 191

\* number of bytes from 1-based position i on that form a valid start of a
\* sequence of n bytes, given that good of them do
RECURSIVE Utf8Good(_, _, _, _)
Utf8Good(b, i, n, good) ==
  IF good >= n THEN good
  ELSE IF i + good > Len(b) THEN good
  ELSE IF ~Utf8ContOk(b[i], good, b[i + good]) THEN good
  ELSE Utf8Good(b, i, n, good + 1)

\* code point of the valid sequence of n bytes at position i
Utf8CodePoint(b, i, n) ==
  IF n = 2 THEN (b[i] - 192) * 64 + (b[i + 1] - 128)
  ELSE IF n = 3 THEN (b[i] - 224) * 4096 + (b[i + 1] - 128) * 64 + (b[i + 2] - 128)
  ELSE (b[i] - 240) * 262144 + (b[i + 1] - 128) * 4096 + (b[i + 2] - 128) * 64 + (b[i + 3] - 128)

\* bytes.decode('utf-8', errors='replace') from position i on: every
\* maximal invalid part becomes one U+FFFD
RECURSIVE Utf8DecodeFrom(_, _)
Utf8DecodeFrom(b, i) ==
  IF i > Len(b) THEN <<>>
  ELSE LET n == Utf8SeqLen(b[i]) IN
       IF n = 0 THEN <<REPLACEMENT>> \o Utf8DecodeFrom(b, i + 1)
       ELSE IF n = 1 THEN <<b[i]>> \o Utf8DecodeFrom(b, i + 1)
       ELSE LET good == Utf8Good(b, i, n, 1) IN
            IF good = n
            THEN <<Utf8CodePoint(b, i, n)>> \o Utf8DecodeFrom(b, i + n)
            ELSE <<REPLACEMENT>> \o Utf8DecodeFrom(b, i + good)

\* token.decode('utf-8', errors='replace')
DecodeToken(token) == Utf8DecodeFrom(token, 1)

\* with errors='replace' the decode raises no UnicodeDecodeError
DecodeRaises(token) == FALSE

\* t[p:p+len(sub)] == sub
MatchAt(t, sub, p) == \A k \in 1..Len(sub) : t[p + k] = sub[k]

\* str.index(sub, start): the lowest p >= start with t[p:p+len(sub)] == sub;
\* -1 stands for the ValueError of a substring that is not found
RECURSIVE IndexFrom(_, _, _)
IndexFrom(t, sub, p) ==
  IF p + Len(sub) > Len(t) THEN -1
  ELSE IF MatchAt(t, sub, p) THEN p
  ELSE IndexFrom(t, sub, p + 1)

IndexFromStart(t, sub, start) == IndexFrom(t, sub, 0)

Index(t, sub, start) == IndexFrom(t, sub, start)

\* the slice t[a:b] for 0 <= a, clamped to the text as Python clamps it
Slice(t, a, b) == SubSeq(t, a + 1, IF b < Len(t) THEN b ELSE Len(t))

\* the slice t[a:]
SliceFromSkipsOne(t, a) == SubSeq(t, a + 2, Len(t))

SliceFrom(t, a) == SubSeq(t, a + 1, Len(t))

\* the characters of a string as uncoloured items of the coloured text
Plain(s) == [k \in 1..Len(s) |-> <<"char", s[k]>>]

\* threshold of positioning errors
max_errors == 5

PositioningWarning == <<"positioning", <<>>>>

DecodeWarning == <<"decode", <<>>>>

\* lines written by print()
TextLine(t) == [kind |-> "text", chars |-> t, body |-> <<>>, ntokens |-> 0, nchars |-> 0]

HeaderLine(nt, nc) == [kind |-> "header", chars |-> <<>>, body |-> <<>>, ntokens |-> nt, nchars |-> nc]

BodyLine(c) == [kind |-> "body", chars |-> <<>>, body |-> c, ntokens |-> 0, nchars |-> 0]

BlankLine == [kind |-> "blank", chars |-> <<>>, body |-> <<>>, ntokens |-> 0, nchars |-> 0]

\* print(line, file=f)
PrintTo(s, f, line) == [s EXCEPT ![f] = Append(@, line)]

----------------------------------------------------------------------------
(* Inputs of the calls. *)

SeqsUpTo(S, n) == UNION {[1..k -> S] : k \in 0..n}

\* characters appended to a stem to form a model name
SuffixChars == {"o", "-", "0"}

\* names no table knows
UnknownStems ==
  { <<>>,
    <<"i","n","v","a","l","i","d","_","m","o","d","e","l","_","n","a","m","e">>,
    <<"t","o","t","a","l","l","y","-","u","n","k","n","o","w","n","-","m","o","d","e","l">> }

\* versioned and fine-tuned names
ScenarioNames ==
  { <<"g","p","t","-","4","-","0","3","1","4">>,
    <<"f","t",":","g","p","t","-","4","o",":","o","r","g">>,
    <<"f","t",":","g","p","t","-","4",":","o","r","g">> }

ModelStems ==
  {MODEL_TO_ENCODING[i][1] : i \in 1..Len(MODEL_TO_ENCODING)}
    \cup {MODEL_PREFIX_TO_ENCODING[i][1] : i \in 1..Len(MODEL_PREFIX_TO_ENCODING)}
    \cup {get_available_models[i] : i \in 1..Len(get_available_models)}
    \cup UnknownStems

ModelNames ==
  {s \o x : s \in ModelStems, x \in SeqsUpTo(SuffixChars, MaxSuffixLen)} \cup ScenarioNames

Contents == SeqsUpTo({"a", " "}, MaxContentLen)

\* code points of the texts: "a", U+00E9 and U+FFFD
TextChars == {97, 233, 65533}

\* tokens: the empty token, "a", "aa", the two bytes 0xC3 0xA9 of U+00E9, and
\* the byte 0xC3 alone, which is a truncated sequence
TokenSet == {<<>>, <<97>>, <<97, 97>>, <<195, 169>>, <<195>>}

\* short texts with few tokens
RichInputs ==
  {[text |-> t, tokens |-> k] : t \in SeqsUpTo(TextChars, MaxTextLen),
                                k \in SeqsUpTo(TokenSet, MaxTokens)}

\* one-character text with many tokens, each "a" or "b"
LongInputs ==
  {[text |-> <<97>>, tokens |-> k] : k \in SeqsUpTo({<<97>>, <<98>>}, MaxErrTokens)}

\* "Hello, world!" and its tokens "Hello", ",", " world", "!"
HelloText == <<72, 101, 108, 108, 111, 44, 32, 119, 111, 114, 108, 100, 33>>

HelloTokens == << <<72, 101, 108, 108, 111>>, <<44>>, <<32, 119, 111, 114, 108, 100>>, <<33>> >>

VizInputs == RichInputs \cup LongInputs \cup {[text |-> HelloText, tokens |-> HelloTokens]}

Outputs == {"stdout", "buffer"}

----------------------------------------------------------------------------
(* The state machine: one call of one entry point per behaviour. *)

Init ==
  /\ pc = "idle"
  /\ caller = "none"
  /\ model_name = <<>>
  /\ content = <<>>
  /\ encoding_name = <<>>
  /\ ct_result = [kind |-> "none", value |-> 0]
  /\ stderr = <<>>
  /\ text = <<>>
  /\ tokens = <<>>
  /\ output = "stdout"
  /\ sinks = [stdout |-> <<>>, buffer |-> <<>>]
  /\ positions = <<>>
  /\ offset = 0
  /\ error_count = 0
  /\ tok_i = 1
  /\ colored_text = <<>>
  /\ last_end = 0
  /\ span_i = 1

\* a call get_encoding_for_model(name)
CallGetEncodingForModel ==
  /\ pc = "idle"
  /\ \E name \in ModelNames :
       LET r == get_encoding_for_model(name) IN
       /\ model_name' = name
       /\ encoding_name' = r.encoding
       /\ stderr' = stderr \o r.warnings
  /\ caller' = "get_encoding_for_model"
  /\ pc' = "done"
  /\ UNCHANGED <<content, ct_result>>
  /\ UNCHANGED vizVars

\* a call count_tokens(c, name)
CallCountTokens ==
  /\ pc = "idle"
  /\ \E name \in ModelNames, c \in Contents :
       \E n \in EncodeCounts(c) :
         LET r == count_tokens(c, name, n) IN
         /\ model_name' = name
         /\ content' = c
         /\ ct_result' = [kind |-> r.kind, value |-> r.value]
         /\ stderr' = stderr \o r.warnings
  /\ caller' = "count_tokens"
  /\ pc' = "done"
  /\ UNCHANGED encoding_name
  /\ UNCHANGED vizVars

\* a call get_token_positions(text, tokens): the locals before the loop
CallGetTokenPositions ==
  /\ pc = "idle"
  /\ \E inp \in VizInputs :
       /\ text' = inp.text
       /\ tokens' = inp.tokens
  /\ caller' = "get_token_positions"
  /\ positions' = <<>>
  /\ offset' = 0
  /\ error_count' = 0
  /\ tok_i' = 1
  /\ pc' = "gtp_loop"
  /\ UNCHANGED <<output, sinks, colored_text, last_end, span_i, stderr>>
  /\ UNCHANGED resolverVars

\* a call visualize_tokens(text, tokens, output)
CallVisualizeTokens ==
  /\ pc = "idle"
  /\ \E inp \in VizInputs, out \in Outputs :
       /\ text' = inp.text
       /\ tokens' = inp.tokens
       /\ output' = out
  /\ caller' = "visualize_tokens"
  /\ pc' = "viz_entry"
  /\ UNCHANGED <<sinks, positions, offset, error_count, tok_i, colored_text,
                 last_end, span_i, stderr>>
  /\ UNCHANGED resolverVars

\* "if not tokens: print(text); return"
VisualizeNoTokens ==
  /\ pc = "viz_entry"
  /\ tokens = <<>>
  /\ sinks' = PrintTo(sinks, "stdout", TextLine(text))
  /\ pc' = "done"
  /\ UNCHANGED <<caller, stderr, text, tokens, output, positions, offset,
                 error_count, tok_i, colored_text, last_end, span_i>>
  /\ UNCHANGED resolverVars

\* visualize_tokens calls get_token_positions(text, tokens)
VisualizeGetPositions ==
  /\ pc = "viz_entry"
  /\ tokens # <<>>
  /\ positions' = <<>>
  /\ offset' = 0
  /\ error_count' = 0
  /\ tok_i' = 1
  /\ pc' = "gtp_loop"
  /\ UNCHANGED <<caller, stderr, text, tokens, output, sinks, colored_text,
                 last_end, span_i>>
  /\ UNCHANGED resolverVars

\* loop body, token found at start: the span of the occurrence
TokenFoundCursorAtStart(token_str, start) ==
  LET end == start + Len(token_str) IN
  /\ positions' = Append(positions, <<start, end, token_str>>)
  /\ offset' = start
  /\ UNCHANGED <<error_count, stderr>>

TokenFound(token_str, start) ==
  LET end == start + Len(token_str) IN
  /\ positions' = Append(positions, <<start, end, token_str>>)
  /\ offset' = end
  /\ UNCHANGED <<error_count, stderr>>

\* loop body, ValueError of text.index: the span anchored at the cursor
TokenNotFoundNoAdvance(token_str) ==
  /\ positions' = Append(positions, <<offset, offset + Len(token_str), token_str>>)
  /\ offset' = offset
  /\ error_count' = error_count + 1
  /\ stderr' = IF error_count + 1 = max_errors
               THEN Append(stderr, PositioningWarning)
               ELSE stderr

TokenNotFound(token_str) ==
  /\ positions' = Append(positions, <<offset, offset + Len(token_str), token_str>>)
  /\ offset' = offset + Len(token_str)
  /\ error_count' = error_count + 1
  /\ stderr' = IF error_count + 1 = max_errors
               THEN Append(stderr, PositioningWarning)
               ELSE stderr

\* loop body, handler of UnicodeDecodeError; the placeholder literal of the
\* source is the three characters U+00EF U+00BF U+00BD
TokenDecodeError ==
  /\ positions' = Append(positions, <<offset, offset + 1, <<239, 191, 189>>>>)
  /\ offset' = offset + 1
  /\ stderr' = Append(stderr, DecodeWarning)
  /\ UNCHANGED error_count

\* one iteration of "for token in tokens"
ProcessToken ==
  /\ pc = "gtp_loop"
  /\ tok_i <= Len(tokens)
  /\ IF DecodeRaises(tokens[tok_i])
     THEN TokenDecodeError
     ELSE LET token_str == DecodeToken(tokens[tok_i])
              start == Index(text, token_str, offset)
          IN IF start # -1
             THEN TokenFound(token_str, start)
             ELSE TokenNotFound(token_str)
  /\ tok_i' = tok_i + 1
  /\ UNCHANGED <<pc, caller, text, tokens, output, sinks, colored_text,
                 last_end, span_i>>
  /\ UNCHANGED resolverVars

\* "return positions": to the caller of get_token_positions
ReturnPositions ==
  /\ pc = "gtp_loop"
  /\ tok_i > Len(tokens)
  /\ IF caller = "visualize_tokens"
     THEN /\ pc' = "render"
          /\ colored_text' = <<>>
          /\ last_end' = 0
          /\ span_i' = 1
     ELSE /\ pc' = "done"
          /\ UNCHANGED <<colored_text, last_end, span_i>>
  /\ UNCHANGED <<caller, stderr, text, tokens, output, sinks, positions,
                 offset, error_count, tok_i>>
  /\ UNCHANGED resolverVars

\* one iteration of "for i, (start, end, token_str) in enumerate(token_positions)"
RenderSpan ==
  /\ pc = "render"
  /\ span_i <= Len(positions)
  /\ LET start == positions[span_i][1]
         end == positions[span_i][2]
         token_str == positions[span_i][3]
         gap == IF start > last_end THEN Plain(Slice(text, last_end, start)) ELSE <<>>
     IN /\ colored_text' = colored_text \o gap
                             \o <<ColorMarker(span_i - 1)>> \o Plain(token_str) \o <<RESET>>
        /\ last_end' = end
  /\ span_i' = span_i + 1
  /\ UNCHANGED <<pc, caller, stderr, text, tokens, output, sinks, positions,
                 offset, error_count, tok_i>>
  /\ UNCHANGED resolverVars

\* after the loop: the remaining text, then the header, the coloured text
\* and an empty line are printed to output
RenderFinish ==
  /\ pc = "render"
  /\ span_i > Len(positions)
  /\ LET rest == IF last_end < Len(text) THEN Plain(SliceFrom(text, last_end)) ELSE <<>>
         final == colored_text \o rest
     IN /\ colored_text' = final
        /\ sinks' = PrintTo(PrintTo(PrintTo(sinks, output,
                                            HeaderLine(Len(tokens), Len(text))),
                                    output, BodyLine(final)),
                            output, BlankLine)
  /\ pc' = "done"
  /\ UNCHANGED <<caller, stderr, text, tokens, output, positions, offset,
                 error_count, tok_i, last_end, span_i>>
  /\ UNCHANGED resolverVars

Next ==
  \/ CallGetEncodingForModel
  \/ CallCountTokens
  \/ CallGetTokenPositions
  \/ CallVisualizeTokens
  \/ VisualizeNoTokens
  \/ VisualizeGetPositions
  \/ ProcessToken
  \/ ReturnPositions
  \/ RenderSpan
  \/ RenderFinish

Spec == Init /\ [][Next]_vars

----------------------------------------------------------------------------
(* Properties of the resolver. *)

\* p is an initial segment of s
IsPrefixOf(p, s) == Len(p) <= Len(s) /\ SubSeq(s, 1, Len(p)) = p

IsExactKey(name) == \E i \in 1..Len(MODEL_TO_ENCODING) : name = MODEL_TO_ENCODING[i][1]

\* indexes of the prefix-table entries name starts with
MatchingPrefixes(name) ==
  {i \in 1..Len(MODEL_PREFIX_TO_ENCODING) : IsPrefixOf(MODEL_PREFIX_TO_ENCODING[i][1], name)}

IsTokenizerName(name) == name \in {gpt2, r50k_base, p50k_base, p50k_edit, cl100k_base, o200k_base}

\* no exact-table match, no prefix match and no identity match
Unrecognized(name) ==
  /\ ~IsExactKey(name)
  /\ MatchingPrefixes(name) = {}
  /\ ~IsTokenizerName(name)

Resolved == pc = "done" /\ caller = "get_encoding_for_model"

Counted == pc = "done" /\ caller = "count_tokens"

GPT4Turbo == <<"g","p","t","-","4","-","t","u","r","b","o">>

\* C1: for every key s of the exact table, get_encoding_for_model(s) returns
\* exactly the value mapped to s, also when s starts with an entry of the
\* prefix table, and prints no warning.
C1_ExactMatchWins ==
  Resolved =>
    \A i \in 1..Len(MODEL_TO_ENCODING) :
      model_name = MODEL_TO_ENCODING[i][1] =>
        /\ encoding_name = MODEL_TO_ENCODING[i][2]
        /\ stderr = <<>>

\* the exact key "gpt-4-turbo", which starts with the prefix "gpt-4-", resolved
C1_Witness ==
  /\ Resolved
  /\ model_name = GPT4Turbo
  /\ MatchingPrefixes(model_name) # {}
  /\ encoding_name = cl100k_base

\* C2: a name that is no exact key and starts with at least one prefix of the
\* prefix table resolves to the value of the first matching prefix in table
\* order; "gpt-4-0314" resolves to the value of "gpt-4-" and a name starting
\* with "ft:gpt-4o" to the value of "ft:gpt-4o", not to that of "ft:gpt-4".
C2_FirstPrefixWins ==
  (Resolved /\ ~IsExactKey(model_name) /\ MatchingPrefixes(model_name) # {}) =>
    /\ \E i \in MatchingPrefixes(model_name) :
         /\ \A j \in MatchingPrefixes(model_name) : i <= j
         /\ encoding_name = MODEL_PREFIX_TO_ENCODING[i][2]
    /\ stderr = <<>>
    /\ model_name = <<"g","p","t","-","4","-","0","3","1","4">> => encoding_name = cl100k_base
    /\ IsPrefixOf(<<"f","t",":","g","p","t","-","4","o">>, model_name) => encoding_name = o200k_base

\* a fine-tuned gpt-4o name, matched by "ft:gpt-4o" and by "ft:gpt-4", resolved
C2_Witness ==
  /\ Resolved
  /\ model_name = <<"f","t",":","g","p","t","-","4","o",":","o","r","g">>
  /\ Cardinality(MatchingPrefixes(model_name)) = 2
  /\ encoding_name = o200k_base

\* C3: a tokenizer name that is no exact key and matches no prefix resolves
\* to itself and no warning is printed.
C3_IdentityFallback ==
  (Resolved /\ IsTokenizerName(model_name) /\ ~IsExactKey(model_name)
     /\ MatchingPrefixes(model_name) = {}) =>
    /\ encoding_name = model_name
    /\ stderr = <<>>

\* the tokenizer name "p50k_base", which is not the default, resolved
C3_Witness ==
  /\ Resolved
  /\ model_name = p50k_base
  /\ ~IsExactKey(model_name)
  /\ encoding_name = p50k_base

C5_InvalidModelRaises ==
  (Counted /\ Unrecognized(model_name)) => ct_result.kind = "ValueError"

----------------------------------------------------------------------------
(* Properties of the visualizer. *)

\* d occurs in t at 0-based position p
OccursAt(t, d, p) == p + Len(d) <= Len(t) /\ SubSeq(t, p + 1, p + Len(d)) = d

\* positions at or after the cursor c where d occurs in t
OccurrencesFrom(t, d, c) == {p \in c..Len(t) : OccursAt(t, d, p)}

\* get_token_positions has processed every token
PositionsDone == pc # "idle" /\ pc # "viz_entry" /\ caller \in {"get_token_positions", "visualize_tokens"}
                   /\ tok_i > Len(tokens)

HelloSpans ==
  << <<0, 5, <<72, 101, 108, 108, 111>>>>, <<5, 6, <<44>>>>,
     <<6, 12, <<32, 119, 111, 114, 108, 100>>>>, <<12, 13, <<33>>>> >>

\* the cursor is 0 before the first token, and the spans of "Hello, world!"
C6_CursorStartAndScenario ==
  /\ (pc = "gtp_loop" /\ tok_i = 1) => offset = 0
  /\ (PositionsDone /\ text = HelloText /\ tokens = HelloTokens) => positions = HelloSpans

\* a token whose decoded string occurs at or after the cursor gets the span
\* of the first such occurrence, and the cursor moves to the end of the span
C6_FoundStep ==
  (pc = "gtp_loop" /\ tok_i <= Len(tokens) /\ tok_i' = tok_i + 1) =>
    LET d == DecodeToken(tokens[tok_i])
        occ == OccurrencesFrom(text, d, offset)
    IN occ # {} =>
         \E p \in occ :
           /\ \A q \in occ : p <= q
           /\ positions' = Append(positions, <<p, p + Len(d), d>>)
           /\ offset' = p + Len(d)

\* C6: with the cursor starting at 0, each token whose decoded string occurs
\* in text at or after the cursor yields the span (p, p + len, decoded) of the
\* first occurrence p at or after the cursor, never an earlier one, and the
\* cursor becomes p + len; "Hello, world!" yields (0,5), (5,6), (6,12), (12,13).
C6_FirstOccurrenceAtOrAfterCursor ==
  [](C6_CursorStartAndScenario) /\ [][C6_FoundStep]_vars

\* the text "aa" with the token "a" twice: the second span is the second "a"
C6_Witness ==
  /\ PositionsDone
  /\ text = <<97, 97>>
  /\ tokens = << <<97>>, <<97>> >>
  /\ positions = << <<0, 1, <<97>>>>, <<1, 2, <<97>>>> >>

\* C7: visualize_tokens with no tokens writes the text unchanged, and no
\* header, to the output sink; get_token_positions("", []) returns no span.
C7_NoTokensWritesTextToOutput ==
  /\ (pc = "done" /\ caller = "visualize_tokens" /\ tokens = <<>>) =>
       sinks[output] = <<TextLine(text)>>
  /\ (pc = "done" /\ caller = "get_token_positions" /\ text = <<>> /\ tokens = <<>>) =>
       positions = <<>>

\* the coloured text with every colour and reset marker removed
RECURSIVE StripMarkers(_)
StripMarkers(c) ==
  IF c = <<>> THEN <<>>
  ELSE IF Head(c)[1] = "char" THEN <<Head(c)[2]>> \o StripMarkers(Tail(c))
  ELSE StripMarkers(Tail(c))

Rendered == pc = "done" /\ caller = "visualize_tokens" /\ tokens # <<>>

\* C8: when every token is found by the search, the coloured body printed by
\* visualize_tokens, with the colour and reset markers removed, is the text.
C8_RoundTrip ==
  (Rendered /\ error_count = 0) =>
    /\ Len(sinks[output]) = 3
    /\ sinks[output][2].kind = "body"
    /\ StripMarkers(sinks[output][2].body) = text

\* a text with a gap before the only span and text after it, rendered
C8_Witness ==
  /\ Rendered
  /\ error_count = 0
  /\ text = <<233, 97, 233>>
  /\ positions = << <<1, 2, <<97>>>> >>

\* the bytes of the token are not valid UTF-8: the decode substitutes U+FFFD
\* although the token holds no encoded U+FFFD (whose first byte is 0xEF)
InvalidBytes(token) ==
  \E k \in 1..Len(DecodeToken(token)) :
    /\ DecodeToken(token)[k] = REPLACEMENT
    /\ \A j \in 1..Len(token) : token[j] # 239

\* C9: a token with an invalid byte sequence gets the placeholder character,
\* a warning about the decode failure is printed, and the remaining tokens
\* are processed.
C9_DecodeFailureWarns ==
  (PositionsDone /\ \E k \in 1..Len(tokens) : InvalidBytes(tokens[k])) =>
    /\ Len(positions) = Len(tokens)
    /\ \E w \in 1..Len(stderr) : stderr[w] = DecodeWarning

\* number of positioning warnings printed so far
PositioningWarnings == Cardinality({w \in 1..Len(stderr) : stderr[w] = PositioningWarning})

\* C10: in one call the positioning warning is printed at most once, and it
\* is printed exactly when the positioning errors of the call exceed 5.
C10_WarnsWhenErrorsExceedThreshold ==
  PositionsDone =>
    /\ PositioningWarnings <= 1
    /\ PositioningWarnings = 1 <=> error_count > 5

\* a token whose decoded string does not occur at or after the cursor gets
\* the span anchored at the cursor; the cursor advances by its length, the
\* error count grows by one and the earlier spans stay
C11_NotFoundStep ==
  (pc = "gtp_loop" /\ tok_i <= Len(tokens) /\ tok_i' = tok_i + 1) =>
    LET d == DecodeToken(tokens[tok_i]) IN
    OccurrencesFrom(text, d, offset) = {} =>
      /\ Len(positions') = Len(positions) + 1
      /\ positions'[Len(positions')] = <<offset, offset + Len(d), d>>
      /\ \A k \in 1..Len(positions) : positions'[k] = positions[k]
      /\ offset' = offset + Len(d)
      /\ error_count' = error_count + 1

InPositions == pc \in {"gtp_loop", "render", "done"}
                 /\ caller \in {"get_token_positions", "visualize_tokens"}
                 /\ ~(pc = "done" /\ caller = "visualize_tokens" /\ tokens = <<>>)

\* one span per processed token, in token order, each as long as its decoded
\* string, none starting before the previous one ends, the cursor at the end
\* of the last span
C12_SpansInvariant ==
  InPositions =>
    /\ Len(positions) = tok_i - 1
    /\ tok_i <= Len(tokens) + 1
    /\ \A k \in 1..Len(positions) :
         /\ positions[k][3] = DecodeToken(tokens[k])
         /\ positions[k][2] - positions[k][1] = Len(positions[k][3])
         /\ 0 <= positions[k][1]
         /\ positions[k][1] <= positions[k][2]
         /\ k > 1 => positions[k][1] >= positions[k - 1][2]
    /\ offset = (IF positions = <<>> THEN 0 ELSE positions[Len(positions)][2])
    /\ PositionsDone => Len(positions) = Len(tokens)

\* the cursor never moves backwards
C12_CursorStep == offset' >= offset

====
